---- MODULE Spec2Model ----
(***************************************************************************)
(* Model of the start-up ingestion block of app.py (lines 16-59) and of    *)
(* the page dispatch (line 675): CSV discovery, table-name derivation,     *)
(* skip-or-load decision, transactional load and status messages, run in   *)
(* a Streamlit session whose script is re-executed on every interaction.   *)
(***************************************************************************)
EXTENDS Integers, Sequences, FiniteSets, TLC

(* ---------------------------------------------------------------------- *)
(* Bounds                                                                   *)
(* ---------------------------------------------------------------------- *)
MaxFiles == 3
MaxRuns == 2

(* ---------------------------------------------------------------------- *)
(* Strings are sequences of one-character strings                           *)
(* ---------------------------------------------------------------------- *)
DotCsv == <<".", "c", "s", "v">>

LowerChar(c) ==
  CASE c = "A" -> "a"
    [] c = "B" -> "b"
    [] c = "C" -> "c"
    [] c = "S" -> "s"
    [] c = "V" -> "v"
    [] OTHER -> c

\* str.lower()
Lower(s) == [i \in DOMAIN s |-> LowerChar(s[i])]

\* str.endswith(suffix)
EndsWith(s, suffix) ==
  /\ Len(s) >= Len(suffix)
  /\ SubSeq(s, Len(s) - Len(suffix) + 1, Len(s)) = suffix

\* str.replace(old, new): every non-overlapping occurrence, left to right
RECURSIVE StrReplace(_, _, _)
StrReplace(s, old, new) ==
  IF Len(s) < Len(old) THEN s
  ELSE IF SubSeq(s, 1, Len(old)) = old
       THEN new \o StrReplace(SubSeq(s, Len(old) + 1, Len(s)), old, new)
       ELSE <<Head(s)>> \o StrReplace(Tail(s), old, new)

\* variant: the suffix test ignores case
IsCandidate_AnyCase(filename) == EndsWith(Lower(filename), DotCsv)

\* line 30: the candidate filter
IsCandidate(filename) == EndsWith(filename, DotCsv)

\* line 32: table_name = filename.replace(".csv", "").lower()
DeriveTableName(filename) == Lower(StrReplace(filename, DotCsv, <<>>))

(* ---------------------------------------------------------------------- *)
(* The data directory: names that may be present, and their content        *)
(* ---------------------------------------------------------------------- *)
F_a == <<"a", ".", "c", "s", "v">>
F_A == <<"A", ".", "c", "s", "v">>
F_b == <<"b", ".", "c", "s", "v">>
F_acc == <<"a", ".", "c", "s", "v", ".", "c", "s", "v">>
F_bUP == <<"b", ".", "C", "S", "V">>

FileNames == {F_a, F_A, F_b, F_acc, F_bUP}

\* files that pd.read_csv cannot parse
Malformed == {F_acc}

\* data rows (header excluded) of each file
FileRows(f) ==
  CASE f = F_a -> <<"r1", "r2">>
    [] f = F_A -> <<"r3">>
    [] f = F_b -> <<>>
    [] OTHER -> <<"r4">>

\* a table of the store: absent, or present with its rows
Absent == [present |-> FALSE, rows |-> <<>>]
Table(rows) == [present |-> TRUE, rows |-> rows]
OldTable == Table(<<"old">>)

TableNames == {DeriveTableName(f) : f \in {g \in FileNames : IsCandidate(g)}}

\* sequences without repetition over S, of length at most n
RECURSIVE Listings(_, _)
Listings(S, n) ==
  IF n = 0 THEN {<<>>}
  ELSE LET shorter == Listings(S, n - 1)
       IN shorter \cup {Append(l, f) : l \in {k \in shorter : Len(k) = n - 1},
                                        f \in S}

Range(s) == {s[i] : i \in DOMAIN s}
DirListings == {l \in Listings(FileNames, MaxFiles) : Cardinality(Range(l)) = Len(l)}

\* an optional value: unset, or set to x
Unset == <<>>
Some(x) == <<x>>

VARIABLES
  store,            \* destination store: table name -> Absent or its rows
  secretPresent,    \* st.secrets has DB_URL
  dirExists,        \* os.path.exists("data")
  listing,          \* os.listdir("data"), in enumeration order
  ss_data_loaded,   \* "data_loaded" in st.session_state
  ss_engine,        \* "engine" in st.session_state
  ss_files_loaded,  \* st.session_state["files_loaded"], when set
  pc,               \* position of the script
  engine,           \* the module-level name `engine` is bound
  cache,            \* inspector.info_cache entry of get_table_names
  idx,              \* position of the for loop in listing
  table_name,       \* local table_name
  df,               \* local df
  files_loaded,     \* local files_loaded
  txSaved,          \* store content at engine.begin()
  inserted,         \* rows of df written so far inside the transaction
  report,           \* per-file status messages of this run, in emission order
  fatal,            \* the run-level st.error emitted by this run
  readFiles,        \* files passed to pd.read_csv in this run
  txFiles,          \* files for which engine.begin() was entered in this run
  pageResult,       \* outcome of page_map[section]()
  storeAtRunStart,  \* store when this ingestion run started
  prevReport,       \* report of the previous ingestion run
  prevStart,        \* store when the previous ingestion run started
  loopRuns,         \* script executions that entered the file loop
  branch,           \* branch of line 16 taken by the latest execution
  runs              \* script executions so far

vars == <<store, secretPresent, dirExists, listing, ss_data_loaded, ss_engine,
          ss_files_loaded, pc, engine, cache, idx, table_name, df,
          files_loaded, txSaved, inserted, report, fatal, readFiles, txFiles,
          pageResult, storeAtRunStart, prevReport, prevStart, loopRuns,
          branch, runs>>

envVars == <<secretPresent, dirExists, listing>>
sessVars == <<ss_data_loaded, ss_engine, ss_files_loaded>>
txVars == <<txSaved, inserted>>
obsVars == <<report, fatal, readFiles, txFiles>>
histVars == <<storeAtRunStart, prevReport, prevStart, loopRuns, branch>>

(* ---------------------------------------------------------------------- *)
(* Helpers of the loop body                                                 *)
(* ---------------------------------------------------------------------- *)
\* variant: the catalog query looks at a schema that holds no table
GetTableNames_Empty(st) == {}

\* inspector.get_table_names() on the store
GetTableNames(st) == {t \in DOMAIN st : st[t].present}

\* variant: every call queries the store again
CatalogNames_Fresh(c, st) == GetTableNames(st)

\* line 34: the inspector answers from its cache once a call has filled it
CatalogNames(c, st) == IF c = Unset THEN GetTableNames(st) ELSE c[1]

\* variant: the existence test inverted
AlreadyExists_Negated(t, names) == t \notin names

\* line 34: table_name in inspector.get_table_names()
AlreadyExists(t, names) == t \in names

\* line 29: the for statement moves to the next directory entry
NextFile(i) == i + 1

\* line 44: len(df)
RowCount(d) == Len(d)

\* line 35
SkippedOutcome(f, t) ==
  [file |-> f, table |-> t, kind |-> "Skipped", row_count |-> 0]

\* line 44
LoadedOutcome(f, t, d) ==
  [file |-> f, table |-> t, kind |-> "Loaded", row_count |-> RowCount(d)]

\* line 48
FailedOutcome(f, t) ==
  [file |-> f, table |-> t, kind |-> "Failed", row_count |-> 0]

\* variant: if_exists="append", an existing table keeps its rows
ReplaceTable_Append(st, t) ==
  IF st[t].present THEN st ELSE [st EXCEPT ![t] = Table(<<>>)]

\* line 42, if_exists="replace": drop the table if present, create it empty
ReplaceTable(st, t) == [st EXCEPT ![t] = Table(<<>>)]

\* line 42: one row of df inserted into the table
InsertRow(st, t, row) == [st EXCEPT ![t] = Table(Append(st[t].rows, row))]

\* variant: no rollback, the rows written so far stay
Rollback_Keep(saved, current) == current

\* line 41: leaving the `with engine.begin()` block on an exception
Rollback(saved, current) == saved

Init ==
  /\ store \in [TableNames -> {Absent, OldTable}]
  /\ secretPresent \in BOOLEAN
  /\ dirExists \in BOOLEAN
  /\ listing \in DirListings
  /\ ss_data_loaded = FALSE
  /\ ss_engine = FALSE
  /\ ss_files_loaded = Unset
  /\ pc = "idle"
  /\ engine = FALSE
  /\ cache = Unset
  /\ idx = 1
  /\ table_name = <<>>
  /\ df = <<>>
  /\ files_loaded = <<>>
  /\ txSaved = store
  /\ inserted = 0
  /\ report = <<>>
  /\ fatal = "none"
  /\ readFiles = {}
  /\ txFiles = {}
  /\ pageResult = "none"
  /\ storeAtRunStart = store
  /\ prevReport = <<>>
  /\ prevStart = store
  /\ loopRuns = 0
  /\ branch = "none"
  /\ runs = 0

(* ---------------------------------------------------------------------- *)
(* The script, one action per statement that can change or observe state    *)
(* ---------------------------------------------------------------------- *)
\* Streamlit re-executes the script for a user interaction of the session
Rerun ==
  /\ pc = "idle"
  /\ runs < MaxRuns
  /\ runs' = runs + 1
  /\ pc' = "start"
  /\ engine' = FALSE
  /\ pageResult' = "none"
  /\ UNCHANGED <<store, envVars, sessVars, cache, idx, table_name, df,
                 files_loaded, txVars, obsVars, histVars>>

\* a new browser session executes the script with an empty session_state
NewSession ==
  /\ pc = "idle"
  /\ runs > 0
  /\ runs < MaxRuns
  /\ runs' = runs + 1
  /\ pc' = "start"
  /\ engine' = FALSE
  /\ pageResult' = "none"
  /\ ss_data_loaded' = FALSE
  /\ ss_engine' = FALSE
  /\ ss_files_loaded' = Unset
  /\ UNCHANGED <<store, envVars, cache, idx, table_name, df, files_loaded,
                 txVars, obsVars, histVars>>

\* variant: the block is entered whatever the session holds
EnterIngestion_Always ==
  /\ pc = "start"
  /\ pc' = "secrets"
  /\ branch' = "ingest"
  /\ prevReport' = report
  /\ prevStart' = storeAtRunStart
  /\ storeAtRunStart' = store
  /\ report' = <<>>
  /\ fatal' = "none"
  /\ readFiles' = {}
  /\ txFiles' = {}
  /\ files_loaded' = <<>>
  /\ cache' = Unset
  /\ idx' = 1
  /\ UNCHANGED <<store, envVars, sessVars, engine, table_name, df, txVars,
                 pageResult, loopRuns, runs>>

\* line 16, true branch: the ingestion block is entered
EnterIngestion ==
  /\ pc = "start"
  /\ ~ss_data_loaded
  /\ pc' = "secrets"
  /\ branch' = "ingest"
  /\ prevReport' = report
  /\ prevStart' = storeAtRunStart
  /\ storeAtRunStart' = store
  /\ report' = <<>>
  /\ fatal' = "none"
  /\ readFiles' = {}
  /\ txFiles' = {}
  /\ files_loaded' = <<>>
  /\ cache' = Unset
  /\ idx' = 1
  /\ UNCHANGED <<store, envVars, sessVars, engine, table_name, df, txVars,
                 pageResult, loopRuns, runs>>

\* lines 58-59, else branch: the stored engine is reused
ReuseEngine ==
  /\ pc = "start"
  /\ ss_data_loaded
  /\ engine' = ss_engine
  /\ pc' = "dispatch"
  /\ branch' = "reuse"
  /\ UNCHANGED <<store, envVars, sessVars, cache, idx, table_name, df,
                 files_loaded, txVars, obsVars, pageResult, storeAtRunStart,
                 prevReport, prevStart, loopRuns, runs>>

\* lines 18-20; a missing secret raises and is caught at lines 55-56
CreateEngine ==
  /\ pc = "secrets"
  /\ IF secretPresent
       THEN /\ engine' = TRUE
            /\ ss_engine' = TRUE
            /\ pc' = "inspect"
            /\ fatal' = fatal
       ELSE /\ fatal' = "Unexpected"
            /\ pc' = "dispatch"
            /\ UNCHANGED <<engine, ss_engine>>
  /\ UNCHANGED <<store, envVars, ss_data_loaded, ss_files_loaded, cache, idx,
                 table_name, df, files_loaded, txVars, report, readFiles,
                 txFiles, pageResult, histVars, runs>>

\* line 22: inspect(engine) connects to the store
Inspect ==
  /\ pc = "inspect"
  /\ \E reachable \in BOOLEAN :
       IF reachable
         THEN /\ pc' = "checkdir"
              /\ fatal' = fatal
         ELSE /\ fatal' = "DatabaseError"
              /\ pc' = "dispatch"
  /\ UNCHANGED <<store, envVars, sessVars, engine, cache, idx, table_name, df,
                 files_loaded, txVars, report, readFiles, txFiles, pageResult,
                 histVars, runs>>

\* lines 25-28
CheckDirectory ==
  /\ pc = "checkdir"
  /\ IF dirExists
       THEN /\ files_loaded' = <<>>
            /\ idx' = 1
            /\ pc' = "loop"
            /\ fatal' = fatal
            /\ loopRuns' = loopRuns + 1
       ELSE /\ fatal' = "DirectoryNotFound"
            /\ pc' = "dispatch"
            /\ UNCHANGED <<files_loaded, idx, loopRuns>>
  /\ UNCHANGED <<store, envVars, sessVars, engine, cache, table_name, df,
                 txVars, report, readFiles, txFiles, pageResult,
                 storeAtRunStart, prevReport, prevStart, branch, runs>>

\* lines 29-32: next directory entry, filter, name derivation
LoopStep ==
  /\ pc = "loop"
  /\ IF idx > Len(listing)
       THEN /\ pc' = "finish"
            /\ UNCHANGED <<idx, table_name>>
       ELSE IF IsCandidate(listing[idx])
              THEN /\ table_name' = DeriveTableName(listing[idx])
                   /\ pc' = "catalog"
                   /\ idx' = idx
              ELSE /\ idx' = NextFile(idx)
                   /\ pc' = "loop"
                   /\ table_name' = table_name
  /\ UNCHANGED <<store, envVars, sessVars, engine, cache, df, files_loaded,
                 txVars, obsVars, pageResult, histVars, runs>>

\* lines 34-36: the catalog query (its result is kept in the inspector's
\* cache) and the skip branch; a store error here is caught at lines 53-54
CatalogCheck ==
  /\ pc = "catalog"
  /\ \E reachable \in BOOLEAN :
       IF ~reachable
         THEN /\ fatal' = "DatabaseError"
              /\ pc' = "dispatch"
              /\ UNCHANGED <<cache, idx, report>>
         ELSE LET names == CatalogNames(cache, store)
              IN /\ cache' = Some(names)
                 /\ fatal' = fatal
                 /\ IF AlreadyExists(table_name, names)
                      THEN /\ report' = Append(report,
                                  SkippedOutcome(listing[idx], table_name))
                           /\ idx' = NextFile(idx)
                           /\ pc' = "loop"
                      ELSE /\ pc' = "read"
                           /\ UNCHANGED <<idx, report>>
  /\ UNCHANGED <<store, envVars, sessVars, engine, table_name, df,
                 files_loaded, txVars, readFiles, txFiles, pageResult,
                 histVars, runs>>

\* variant: the handler ends the loop
HandleLoadException_Abort ==
  /\ report' = Append(report, FailedOutcome(listing[idx], table_name))
  /\ idx' = idx
  /\ pc' = "finish"

\* variant: the handler swallows the error without a message
HandleLoadException_Silent ==
  /\ report' = report
  /\ idx' = NextFile(idx)
  /\ pc' = "loop"

\* variant: the handler retries the same file
HandleLoadException_Retry ==
  /\ report' = report
  /\ idx' = idx
  /\ pc' = "catalog"

\* lines 47-48: the per-file handler; the loop goes on with the next entry
HandleLoadException ==
  /\ report' = Append(report, FailedOutcome(listing[idx], table_name))
  /\ idx' = NextFile(idx)
  /\ pc' = "loop"

\* line 39: pd.read_csv
ReadCsv ==
  /\ pc = "read"
  /\ readFiles' = readFiles \cup {listing[idx]}
  /\ IF listing[idx] \in Malformed
       THEN /\ HandleLoadException
            /\ df' = df
       ELSE /\ df' = FileRows(listing[idx])
            /\ pc' = "begin"
            /\ UNCHANGED <<idx, report>>
  /\ UNCHANGED <<store, envVars, sessVars, engine, cache, table_name,
                 files_loaded, txVars, fatal, txFiles, pageResult, histVars,
                 runs>>

\* line 41: engine.begin() opens the transaction
BeginTx ==
  /\ pc = "begin"
  /\ \E ok \in BOOLEAN :
       IF ok
         THEN /\ txSaved' = store
              /\ inserted' = 0
              /\ txFiles' = txFiles \cup {listing[idx]}
              /\ pc' = "replace"
              /\ UNCHANGED <<idx, report>>
         ELSE /\ HandleLoadException
              /\ UNCHANGED <<txSaved, inserted, txFiles>>
  /\ UNCHANGED <<store, envVars, sessVars, engine, cache, table_name, df,
                 files_loaded, fatal, readFiles, pageResult, histVars, runs>>

\* line 42: to_sql drops an existing table and creates it
ToSqlReplace ==
  /\ pc = "replace"
  /\ \E ok \in BOOLEAN :
       IF ok
         THEN /\ store' = ReplaceTable(store, table_name)
              /\ pc' = "insert"
              /\ UNCHANGED <<idx, report>>
         ELSE /\ store' = Rollback(txSaved, store)
              /\ HandleLoadException
  /\ UNCHANGED <<envVars, sessVars, engine, cache, table_name, df,
                 files_loaded, txVars, fatal, readFiles, txFiles, pageResult,
                 histVars, runs>>

\* line 42: to_sql writes the rows of df
ToSqlInsert ==
  /\ pc = "insert"
  /\ inserted < Len(df)
  /\ \E ok \in BOOLEAN :
       IF ok
         THEN /\ store' = InsertRow(store, table_name, df[inserted + 1])
              /\ inserted' = inserted + 1
              /\ UNCHANGED <<pc, idx, report>>
         ELSE /\ store' = Rollback(txSaved, store)
              /\ HandleLoadException
              /\ inserted' = inserted
  /\ UNCHANGED <<envVars, sessVars, engine, cache, table_name, df,
                 files_loaded, txSaved, fatal, readFiles, txFiles, pageResult,
                 histVars, runs>>

\* lines 41-45: leaving the with block commits; then the success message
CommitTx ==
  /\ pc = "insert"
  /\ inserted = Len(df)
  /\ \E ok \in BOOLEAN :
       IF ok
         THEN /\ report' = Append(report,
                     LoadedOutcome(listing[idx], table_name, df))
              /\ files_loaded' = Append(files_loaded, table_name)
              /\ idx' = NextFile(idx)
              /\ pc' = "loop"
              /\ store' = store
         ELSE /\ store' = Rollback(txSaved, store)
              /\ HandleLoadException
              /\ files_loaded' = files_loaded
  /\ UNCHANGED <<envVars, sessVars, engine, cache, table_name, df, txVars,
                 fatal, readFiles, txFiles, pageResult, histVars, runs>>

\* variant: the name of every processed file is exposed
Finish_StoreAll ==
  /\ pc = "finish"
  /\ ss_data_loaded' = TRUE
  /\ ss_files_loaded' = Some([i \in DOMAIN report |-> report[i].table])
  /\ pc' = "dispatch"
  /\ UNCHANGED <<store, envVars, ss_engine, engine, cache, idx, table_name,
                 df, files_loaded, txVars, obsVars, pageResult, histVars,
                 runs>>

\* lines 50-51
Finish ==
  /\ pc = "finish"
  /\ ss_data_loaded' = TRUE
  /\ ss_files_loaded' = Some(files_loaded)
  /\ pc' = "dispatch"
  /\ UNCHANGED <<store, envVars, ss_engine, engine, cache, idx, table_name,
                 df, files_loaded, txVars, obsVars, pageResult, histVars,
                 runs>>

\* line 675: the selected page runs; pages a-e query through `engine`
Dispatch ==
  /\ pc = "dispatch"
  /\ \E queriesStore \in BOOLEAN :
       pageResult' = IF queriesStore /\ ~engine THEN "NameError" ELSE "ok"
  /\ pc' = "idle"
  /\ UNCHANGED <<store, envVars, sessVars, engine, cache, idx, table_name, df,
                 files_loaded, txVars, obsVars, histVars, runs>>

Next ==
  \/ Rerun
  \/ NewSession
  \/ EnterIngestion
  \/ ReuseEngine
  \/ CreateEngine
  \/ Inspect
  \/ CheckDirectory
  \/ LoopStep
  \/ CatalogCheck
  \/ ReadCsv
  \/ BeginTx
  \/ ToSqlReplace
  \/ ToSqlInsert
  \/ CommitTx
  \/ Finish
  \/ Dispatch

Spec == Init /\ [][Next]_vars

\* the script is single-threaded and every statement returns or raises
FairSpec == Spec /\ WF_vars(Next)

TypeOK ==
  /\ \A t \in TableNames : store[t].present \in BOOLEAN
  /\ pc \in {"idle", "start", "secrets", "inspect", "checkdir", "loop",
             "catalog", "read", "begin", "replace", "insert", "finish",
             "dispatch"}
  /\ idx \in 1..(Len(listing) + 1)
  /\ pc = "insert" => inserted \in 0..Len(df)
  /\ runs \in 0..MaxRuns

(* ---------------------------------------------------------------------- *)
(* Properties                                                               *)
(* ---------------------------------------------------------------------- *)
InTx == {"replace", "insert"}

ReportFiles == [i \in DOMAIN report |-> report[i].file]

Last(s) == s[Len(s)]

\* the step appends one outcome of the given kind to the report
Emits(kind) ==
  /\ Len(report') = Len(report) + 1
  /\ SubSeq(report', 1, Len(report)) = report
  /\ Last(report').kind = kind

\* index of the last Loaded outcome for table t in this run, 0 if none
LastLoaded(t) ==
  LET S == {i \in DOMAIN report :
              report[i].kind = "Loaded" /\ report[i].table = t}
  IN IF S = {} THEN 0 ELSE CHOOSE i \in S : \A j \in S : j <= i

\* the store as the committed loads of this run leave it
CommittedStore ==
  [t \in TableNames |->
     IF LastLoaded(t) = 0 THEN storeAtRunStart[t]
     ELSE Table(FileRows(report[LastLoaded(t)].file))]

LoadedBefore(f) ==
  \E j \in DOMAIN prevReport :
     prevReport[j].file = f /\ prevReport[j].kind = "Loaded"

\* the ingestion block of this run ran to lines 50-51
RunCompleted ==
  /\ pc \in {"dispatch", "idle"}
  /\ fatal = "none"
  /\ ss_data_loaded
  /\ ss_files_loaded = Some(files_loaded)

\* C1: a file that was Loaded by the previous ingestion run gets only a
\* Skipped outcome in the next ingestion run over the same directory, and
\* every table the previous run left in the store keeps its content
\* throughout that next run.
C1_Idempotent ==
  /\ \A i \in DOMAIN report :
        LoadedBefore(report[i].file) => report[i].kind = "Skipped"
  /\ \A t \in TableNames :
        storeAtRunStart[t].present => store[t] = storeAtRunStart[t]

\* a second, completed run after a first run on an empty store that loaded
\* two files: both are skipped and both tables are as the first run left them
C1_Witness ==
  /\ RunCompleted
  /\ \A t \in TableNames : ~prevStart[t].present
  /\ Len(prevReport) >= 2
  /\ prevReport[1].kind = "Loaded" /\ prevReport[2].kind = "Loaded"
  /\ prevReport[1].table # prevReport[2].table
  /\ Len(report) = Len(prevReport)
  /\ report[1].kind = "Skipped" /\ report[2].kind = "Skipped"
  /\ store[prevReport[1].table] = Table(FileRows(prevReport[1].file))
  /\ store = storeAtRunStart

\* C2: a step that records a Failed outcome for one file hands control back
\* to the loop at the next directory entry and leaves the table of every
\* other name as it was; when the loop ends, every candidate file of the
\* directory has its own outcome.
C2_FailureIsolated ==
  /\ [][Emits("Failed") =>
          /\ pc' = "loop"
          /\ idx' = idx + 1
          /\ Last(report').file = listing[idx]
          /\ \A t \in TableNames \ {table_name} : store'[t] = store[t]]_vars
  /\ [](pc = "finish" =>
          \A k \in DOMAIN listing :
             IsCandidate(listing[k]) =>
                \E i \in DOMAIN report : report[i].file = listing[k])

\* three files, the first one malformed: one Failed, then a Loaded and a
\* Loaded or Skipped outcome, and the tables of the other two are whole
C2_Witness ==
  /\ RunCompleted
  /\ Len(report) = 3
  /\ report[1].kind = "Failed" /\ report[1].file \in Malformed
  /\ report[2].kind = "Loaded"
  /\ report[3].kind \in {"Loaded", "Skipped"}
  /\ report[2].table # report[3].table
  /\ store[report[2].table] = Table(FileRows(report[2].file))

\* C3: a step that leaves the transaction without the commit restores the
\* store to what it was when the transaction began and records Failed for
\* the file; the store at the beginning of a transaction, and the store
\* whenever no transaction is open, holds committed loads only.
C3_AtomicLoad ==
  /\ [][(pc \in InTx /\ pc' \notin InTx /\ ~Emits("Loaded")) =>
          /\ store' = txSaved
          /\ Emits("Failed")
          /\ Last(report').file = listing[idx]]_vars
  /\ [](pc \in InTx => txSaved = CommittedStore)
  /\ [](pc \notin InTx => store = CommittedStore)

\* a write failed after one of two rows: the table is absent again
C3_Witness ==
  /\ pc = "loop"
  /\ report # <<>>
  /\ Last(report).kind = "Failed"
  /\ Last(report).file \in txFiles
  /\ Len(df) = 2
  /\ inserted = 1
  /\ ~storeAtRunStart[table_name].present
  /\ ~store[table_name].present

\* C4: when the existence test of line 34 is evaluated and the derived name
\* is in the table set, the step records Skipped for the file, goes to the
\* next entry, and changes neither the store nor the set of files read nor
\* the set of files a transaction was opened for; no file whose name is in
\* the table set is ever read or written.
C4_SkipUntouched ==
  /\ [][(pc = "catalog" /\ fatal' = "none" /\ cache' # Unset
           /\ table_name \in cache'[1]) =>
          /\ Emits("Skipped")
          /\ Last(report').file = listing[idx]
          /\ pc' = "loop"
          /\ store' = store
          /\ readFiles' = readFiles
          /\ txFiles' = txFiles]_vars
  /\ [](cache # Unset =>
          \A f \in readFiles \cup txFiles : DeriveTableName(f) \notin cache[1])
  /\ [](\A i \in DOMAIN report :
          report[i].kind = "Skipped" =>
             /\ report[i].file \notin readFiles \cup txFiles
             /\ store[report[i].table] = storeAtRunStart[report[i].table])

\* a file skipped over an existing table, next to a file that was loaded
C4_Witness ==
  /\ pc = "loop"
  /\ Len(report) = 2
  /\ report[1].kind = "Loaded"
  /\ report[2].kind = "Skipped"
  /\ store[report[2].table] = OldTable
  /\ report[2].file \notin readFiles

\* C5: when a run-level error has been reported (missing directory, missing
\* secret, store error), no file has been read, no table has been created
\* or replaced, and no data_loaded / files_loaded is set.
C5_FatalBeforeSideEffects ==
  fatal # "none" =>
     /\ readFiles = {}
     /\ store = storeAtRunStart
     /\ ~ss_data_loaded
     /\ ss_files_loaded = Unset

\* C6: the files of the recorded outcomes are exactly the candidate files
\* among the directory entries the loop has passed, one outcome each, in
\* enumeration order; when the loop ends it has passed every entry.
C6_ReportCompleteOrdered ==
  /\ ReportFiles = SelectSeq(SubSeq(listing, 1, idx - 1), IsCandidate)
  /\ (pc = "finish" \/ RunCompleted) => idx = Len(listing) + 1

\* a completed run over three entries, one of them not a candidate, with two
\* outcomes of different kinds
C6_Witness ==
  /\ RunCompleted
  /\ Len(listing) = 3
  /\ ~IsCandidate(listing[2])
  /\ Len(report) = 2
  /\ report[1].kind = "Failed"
  /\ report[2].kind = "Loaded"
  /\ report[1].file = listing[1]
  /\ report[2].file = listing[3]

\* C7: every Loaded outcome reports the number of data rows of its file, and
\* at the step that records it the table holds exactly the rows of the file.
C7_RowCountFidelity ==
  /\ [](\A i \in DOMAIN report :
          report[i].kind = "Loaded" =>
             report[i].row_count = Len(FileRows(report[i].file)))
  /\ [][Emits("Loaded") =>
          /\ store'[Last(report').table].present
          /\ store'[Last(report').table].rows = FileRows(Last(report').file)
          /\ Len(store'[Last(report').table].rows) = Last(report').row_count]_vars

\* a load that replaced a table written earlier in the run: one row reported,
\* one row in the table
C7_Witness ==
  /\ pc = "loop"
  /\ Len(report) = 2
  /\ report[1].kind = "Loaded" /\ report[1].row_count = 2
  /\ report[2].kind = "Loaded" /\ report[2].row_count = 1
  /\ report[1].table = report[2].table
  /\ Len(store[report[2].table].rows) = 1

\* the file name without its last four characters, lower-cased
StripFinalExtension(filename) ==
  Lower(SubSeq(filename, 1, Len(filename) - Len(DotCsv)))

\* C8: the derived table name of a candidate file is the file name with
\* only its trailing ".csv" removed, lower-cased.
C8_NameDerivation ==
  pc = "catalog" => table_name = StripFinalExtension(listing[idx])

\* C9: within one run no table is loaded more than once.
C9_NoDoubleLoad ==
  \A i, j \in DOMAIN report :
     (report[i].kind = "Loaded" /\ report[j].kind = "Loaded"
        /\ report[i].table = report[j].table) => i = j

\* C10: an ingestion run that has started ends with a run-level error or
\* with data_loaded set and files_loaded stored.
C10_RunCompletes ==
  (pc = "secrets") ~> (fatal # "none" \/ RunCompleted)

\* a completed run whose files were loaded, skipped and failed
C10_Witness ==
  /\ RunCompleted
  /\ Len(report) = 3
  /\ {report[i].kind : i \in DOMAIN report} = {"Loaded", "Skipped", "Failed"}

IsLoaded(o) == o.kind = "Loaded"

\* the derived names of the Loaded outcomes of this run, in report order
LoadedTables ==
  LET loaded == SelectSeq(report, IsLoaded)
  IN [i \in DOMAIN loaded |-> loaded[i].table]

\* C11 as stated: after a completed run the derived name of a file is in
\* the exposed files_loaded exactly when that file's outcome is Loaded.
C11_NameIffFileLoaded ==
  ss_data_loaded =>
     \A i \in DOMAIN report :
        (report[i].table \in Range(ss_files_loaded[1]))
           <=> report[i].kind = "Loaded"

\* C11: after a completed run the exposed files_loaded is the sequence of
\* the derived names of the Loaded outcomes, one entry per Loaded file in
\* report order; a name is in it exactly when some file deriving to that
\* name was Loaded, and Skipped and Failed outcomes add no entry.
C11_NewlyLoadedSubset ==
  /\ files_loaded = LoadedTables
  /\ ss_data_loaded =>
        /\ ss_files_loaded = Some(LoadedTables)
        /\ \A t \in TableNames :
              t \in Range(ss_files_loaded[1]) <=>
                 \E i \in DOMAIN report :
                    report[i].table = t /\ report[i].kind = "Loaded"

\* a completed run with a Skipped, a Loaded and a Failed file: one name
C11_Witness ==
  /\ RunCompleted
  /\ Len(report) = 3
  /\ report[1].kind = "Skipped"
  /\ report[2].kind = "Loaded"
  /\ report[3].kind = "Failed"
  /\ ss_files_loaded = Some(<<report[2].table>>)

\* C12: the table set used by the existence test is the one of the store at
\* run start and stays the same for the whole run; a file is skipped
\* exactly when its table was present at run start, so a second file of the
\* same derived name is not skipped after the first was loaded, and whenever
\* no transaction is open a table loaded in this run holds the rows of the
\* file loaded last.
C12_SnapshotLastWriteWins ==
  /\ cache # Unset => cache = Some(GetTableNames(storeAtRunStart))
  /\ \A i \in DOMAIN report :
        report[i].kind = "Skipped" <=> storeAtRunStart[report[i].table].present
  /\ pc \notin InTx =>
        \A t \in TableNames :
           LastLoaded(t) # 0 =>
              store[t] = Table(FileRows(report[LastLoaded(t)].file))

\* A.csv then a.csv, table a absent at run start: both loaded, the table
\* holds the two rows of a.csv
C12_Witness ==
  /\ RunCompleted
  /\ Len(report) = 2
  /\ report[1].file = F_A /\ report[1].kind = "Loaded"
  /\ report[2].file = F_a /\ report[2].kind = "Loaded"
  /\ DeriveTableName(F_a) \notin cache[1]
  /\ store[DeriveTableName(F_a)] = Table(FileRows(F_a))

ExactLowerCsvSuffix(f) ==
  /\ Len(f) >= 4
  /\ f[Len(f) - 3] = "."
  /\ f[Len(f) - 2] = "c"
  /\ f[Len(f) - 1] = "s"
  /\ f[Len(f)] = "v"

\* C14: only directory entries whose name ends in the exact lower-case
\* ".csv" are read, get a transaction or get an outcome, and when the loop
\* ends every such entry has an outcome; a table differs from its content at
\* run start only if an entry with that suffix, already reached by the loop,
\* derives to its name.
C14_CaseSensitiveFilter ==
  /\ \A f \in readFiles \cup txFiles : ExactLowerCsvSuffix(f)
  /\ \A i \in DOMAIN report : ExactLowerCsvSuffix(report[i].file)
  /\ pc = "finish" =>
        \A k \in DOMAIN listing :
           ExactLowerCsvSuffix(listing[k]) <=>
              \E i \in DOMAIN report : report[i].file = listing[k]
  /\ \A t \in TableNames :
        store[t] # storeAtRunStart[t] =>
           \E k \in DOMAIN listing :
              /\ k <= idx
              /\ ExactLowerCsvSuffix(listing[k])
              /\ DeriveTableName(listing[k]) = t

\* b.CSV then b.csv in an existing directory: the run completes with one
\* outcome, for b.csv; b.CSV was not read
C14_Witness ==
  /\ RunCompleted
  /\ listing = <<F_bUP, F_b>>
  /\ Len(report) = 1
  /\ report[1].file = F_b
  /\ report[1].kind = "Loaded"
  /\ readFiles = {F_b}
  /\ txFiles = {F_b}

\* C15: whenever the selected page is dispatched the name `engine` is
\* bound, no page fails on an undefined `engine`, and a session that holds
\* data_loaded holds an engine.
C15_EngineAvailable ==
  /\ pc = "dispatch" => engine
  /\ pageResult # "NameError"
  /\ ss_data_loaded => ss_engine

====
